---- MODULE Spec2Model ----
(***************************************************************************)
(* A model of emmental's Checkpointer (src/emmental/logging/checkpointer.py):*)
(* the checkpoint directory, the best-metric ledger and the operations     *)
(* checkpoint(), is_new_best(), clear() and load_best_model().             *)
(*                                                                         *)
(* Strings the code manipulates (metric names, file names) are sequences of *)
(* one-character strings, so that str.replace and glob are computed and not *)
(* assumed.  Python dicts whose insertion order the code reads are          *)
(* sequences of <<key, value>> pairs.                                       *)
(***************************************************************************)
EXTENDS Integers, Sequences, FiniteSets, TLC

\* ------------------------------------------------------------------ bounds

\* Iterations passed to checkpoint() range over 0..MaxIter.
MaxIter == 1

\* Metric values range over 0..MaxValue.
MaxValue == 1

\* At most MaxCalls calls of checkpoint() in one run.
MaxCalls == 2

\* The configured checkpoint_runway ranges over 0..MaxRunway.
MaxRunway == 1

\* evaluation_freq and the checkpoint_freq option range over -1..MaxFreq.
MaxFreq == 2

\* get_batches is given at most MaxLoaders dataloaders.
MaxLoaders == 2

\* A dataloader declares, and yields, at most MaxBatches batches.
MaxBatches == 2

\* ------------------------------------------------------------ value domains

\* Metric names: "a/b" and "a_b" differ only in the character that
\* checkpoint() replaces when it builds a file name.
MetricAB == <<"a", "/", "b">>

MetricA_B == <<"a", "_", "b">>

MetricNames == {MetricAB, MetricA_B}

Values == 0..MaxValue

Iterations == 0..MaxIter

\* The model collaborator: a name and the opaque result of collect_state_dict().
Models == {[name |-> "model0", module_pool |-> 0], [name |-> "model1", module_pool |-> 1]}

\* A metric_dict: a mapping from some metric names to values.
MetricDicts == UNION {[S -> Values] : S \in SUBSET MetricNames}

EmptyDict == [n \in {} |-> 0]

\* -------------------------------------------------------- ordered dicts

Keys(d) == {d[i][1] : i \in DOMAIN d}

Lookup(d, k) == d[CHOOSE i \in DOMAIN d : d[i][1] = k][2]

\* Variant: a key both hold keeps the value it has in d.
RECURSIVE DictUpdateKeepExisting(_, _)
DictUpdateKeepExisting(d, e) ==
    IF e = <<>> THEN d
    ELSE DictUpdateKeepExisting(IF Head(e)[1] \in Keys(d) THEN d ELSE Append(d, Head(e)),
                                Tail(e))

\* dict.update(e): a key of e already in d keeps its place and takes e's
\* value, a new key is appended.
RECURSIVE DictUpdate(_, _)
DictUpdate(d, e) ==
    IF e = <<>> THEN d
    ELSE LET k == Head(e)[1]
             v == Head(e)[2]
             d1 == IF k \in Keys(d)
                   THEN [i \in DOMAIN d |-> IF d[i][1] = k THEN <<k, v>> ELSE d[i]]
                   ELSE Append(d, <<k, v>>)
         IN DictUpdate(d1, Tail(e))

\* ------------------------------------------------------------- file names

Digit(n) == <<"0", "1", "2", "3", "4", "5", "6", "7", "8", "9">>[n + 1]

\* str(n) for a non-negative integer.
RECURSIVE Str(_)
Str(n) == IF n < 10 THEN <<Digit(n)>> ELSE Str(n \div 10) \o <<Digit(n % 10)>>

\* metric.replace('/', '_')
Replace(metric) == [i \in DOMAIN metric |-> IF metric[i] = "/" THEN "_" ELSE metric[i]]

\* f"{checkpoint_path}/checkpoint_{iteration}.pth"; the directory is left out,
\* every file of the model is in checkpoint_path.
CheckpointFile(iteration) == <<"checkpoint_">> \o Str(iteration) \o <<".pth">>

\* f"{checkpoint_path}/best_model_{metric.replace('/', '_')}.pth"
BestModelFile(metric) == <<"best_model_">> \o Replace(metric) \o <<".pth">>

\* glob.glob(f"{checkpoint_path}/*.pth") over the files of the directory.
GlobAllPth(dir) == {p \in dir : p[Len(p)] = ".pth"}

\* glob.glob(f"{checkpoint_path}/checkpoint_*.pth")
GlobCheckpointPth(dir) == {p \in dir : p[1] = "checkpoint_" /\ p[Len(p)] = ".pth"}

\* glob's result removed from the directory, one os.remove per file.
RemoveAll(fs, paths) == [p \in (DOMAIN fs) \ paths |-> fs[p]]

\* ------------------------------------------------------------------ state

VARIABLES
    checkpoint_metric,               \* config: ordered dict metric -> mode
    checkpoint_task_metrics,         \* config: ordered dict of further metric -> mode
    checkpoint_freq,                 \* evaluation_freq * the checkpoint_freq option
    checkpoint_all_metrics,          \* checkpoint_task_metrics updated with checkpoint_metric
    checkpoint_runway,               \* config: no checkpoint before this iteration
    clear_intermediate_checkpoints,  \* config flag
    clear_all_checkpoints,           \* config flag
    checkpoint_condition_met,        \* the transition flag
    best_metric_dict,                \* the ledger: metric -> best value
    files,                           \* checkpoint_path: file name -> saved state_dict
    calls,                           \* number of checkpoint() calls so far
    last,                            \* the last call: its arguments and its outcome
    passed,                          \* history: metric -> values passed to checkpoint()
    evaluated,                       \* history: metric -> values passed at or after the runway
    established,                     \* history: metric -> state_dict of the call that set its best
    cleared,                         \* history: clear() has been called
    ctor,                            \* a construction: Meta.config, the directory, the outcome
    sched,                           \* a get_batches generator: its dataloaders and progress
    step                             \* a checkpoint() call in progress, statement by statement

config == <<checkpoint_metric, checkpoint_task_metrics, checkpoint_freq,
            checkpoint_all_metrics, checkpoint_runway,
            clear_intermediate_checkpoints, clear_all_checkpoints>>

history == <<passed, evaluated, established, cleared>>

\* The state of the other components and of operations in progress.
other == <<ctor, sched, step>>

vars == <<config, checkpoint_condition_met, best_metric_dict, files, calls, last, history,
          other>>

\* The configurations Init draws from.  checkpoint_metric as an ordered dict:
\* empty (the option is None or {}), one key, or two keys of which the second
\* is the one checkpoint_task_metrics also names.
CheckpointMetricConfigs ==
    { <<>>,
      << <<MetricAB, "max">> >>,
      << <<MetricA_B, "max">>, <<MetricAB, "min">> >> }

\* checkpoint_task_metrics: empty (the option is None), or both metrics.
CheckpointTaskMetricsConfigs ==
    { <<>>,
      << <<MetricAB, "max">>, <<MetricA_B, "min">> >> }

NoModel == [name |-> "", module_pool |-> -1]

NoCall == [op |-> "init", iteration |-> -1, metric_dict |-> EmptyDict, model |-> NoModel,
           returned |-> NoModel, new_best |-> {}, moved |-> FALSE, read |-> {},
           error |-> ""]

\* `if self.checkpoint_all_metrics is None: ... = dict()` and
\* `if self.checkpoint_metric: self.checkpoint_all_metrics.update(self.checkpoint_metric)`
MergedMetrics(metric, task_metrics) ==
    IF metric # <<>> THEN DictUpdate(task_metrics, metric) ELSE task_metrics

\* No construction in progress.
NoCtor == [state |-> "none", existed |-> TRUE, path_exists |-> TRUE,
           evaluation_freq |-> 1, freq_option |-> 1,
           checkpoint_metric |-> <<>>, checkpoint_task_metrics |-> <<>>,
           checkpoint_freq |-> 0, checkpoint_all_metrics |-> <<>>, error |-> ""]

\* No generator of get_batches.
NoSched == [state |-> "none", dataloaders |-> <<>>, i |-> 1, k |-> 0, emitted |-> <<>>,
            error |-> ""]

\* No checkpoint() call in progress.  partial is the set of files on disk that
\* a failed or unfinished write left incomplete; ledger0, files0 and partial0
\* are the ledger and the disk as the call in progress (or the last one) found
\* them.
NoStep == [pc |-> "idle", iteration |-> -1, model |-> NoModel, metric_dict |-> EmptyDict,
           state_dict |-> [iteration |-> -1], pending |-> {}, copying |-> <<>>,
           error |-> "", save_failed |-> FALSE, partial |-> {},
           ledger0 |-> EmptyDict, files0 |-> [p \in {} |-> 0], partial0 |-> {}]

\* __init__ after its checks passed: the directory exists, no file of this run
\* in it, the flag is False and the ledger is empty.
Init ==
    /\ checkpoint_metric \in CheckpointMetricConfigs
    /\ checkpoint_task_metrics \in CheckpointTaskMetricsConfigs
    /\ checkpoint_freq \in 1..MaxFreq
    /\ checkpoint_all_metrics = MergedMetrics(checkpoint_metric, checkpoint_task_metrics)
    /\ ctor = NoCtor
    /\ sched = NoSched
    /\ step = NoStep
    /\ checkpoint_runway \in 0..MaxRunway
    /\ clear_intermediate_checkpoints \in BOOLEAN
    /\ clear_all_checkpoints \in BOOLEAN
    /\ checkpoint_condition_met = FALSE
    /\ best_metric_dict = EmptyDict
    /\ files = [p \in {} |-> 0]
    /\ calls = 0
    /\ last = NoCall
    /\ passed = [m \in MetricNames |-> {}]
    /\ evaluated = [m \in MetricNames |-> {}]
    /\ established = EmptyDict
    /\ cleared = FALSE

\* ------------------------------------------------------------- checkpoint

\* Variant: past the runway, only multiples of checkpoint_freq are snapshotted.
RunwayNotMetOrOffFreq(iteration) ==
    iteration < checkpoint_runway \/ iteration % checkpoint_freq # 0

\* Variant: the runway test off by one.
RunwayNotMetOffByOne(iteration) == iteration < checkpoint_runway - 1

\* `if iteration < self.checkpoint_runway: return`
RunwayNotMet(iteration) == iteration < checkpoint_runway

\* Variant: the flag is flipped by every call past the runway.
ConditionMetToggled(iteration) == ~checkpoint_condition_met

\* `elif not self.checkpoint_condition_met and iteration >= self.checkpoint_runway:
\*      self.checkpoint_condition_met = True`: the flag after a call that did
\* not return at the runway test.
ConditionMetAfter(iteration) ==
    IF ~checkpoint_condition_met /\ iteration >= checkpoint_runway THEN TRUE
    ELSE checkpoint_condition_met

collect_state_dict(iteration, model, optimizer, lr_scheduler, metric_dict) ==
    [iteration |-> iteration,
     model |-> [name |-> model.name, module_pool |-> model.module_pool],
     optimizer |-> optimizer,
     lr_scheduler |-> IF lr_scheduler # "None" THEN lr_scheduler ELSE "None",
     metric_dict |-> metric_dict]

\* Variant: ties count as new bests.
IsBetterOrEqual(mode, value, best) ==
    \/ mode = "max" /\ value >= best
    \/ mode = "min" /\ value <= best

\* Variant: the 'min' branch compares like the 'max' branch.
IsBetterIgnoringMode(mode, value, best) == value > best

\* The comparison of is_new_best for a metric that has a ledger entry.
IsBetter(mode, value, best) ==
    \/ mode = "max" /\ value > best
    \/ mode = "min" /\ value < best

\* Variant: the tracked-metric test is missing.
IsTrackedAlways(metric) == TRUE

\* `if metric not in self.checkpoint_all_metrics: continue`
IsTracked(metric) == metric \in Keys(checkpoint_all_metrics)

\* The set is_new_best returns.
is_new_best(metric_dict) ==
    {metric \in DOMAIN metric_dict :
        /\ IsTracked(metric)
        /\ \/ metric \notin DOMAIN best_metric_dict
           \/ IsBetter(Lookup(checkpoint_all_metrics, metric), metric_dict[metric],
                       best_metric_dict[metric])}

\* Variant: the ledger is replaced by the new bests of this call.
UpdatedLedgerOnlyNew(metric_dict) ==
    LET new == is_new_best(metric_dict)
    IN [metric \in new |-> metric_dict[metric]]

\* The ledger is_new_best leaves behind.
UpdatedLedger(metric_dict) ==
    LET new == is_new_best(metric_dict)
    IN [metric \in (DOMAIN best_metric_dict) \cup new |->
            IF metric \in new THEN metric_dict[metric] ELSE best_metric_dict[metric]]

\* torch.save(state_dict, path)
Save(fs, path, state_dict) ==
    [p \in (DOMAIN fs) \cup {path} |-> IF p = path THEN state_dict ELSE fs[p]]

\* Variant: an existing destination is kept.
CopyFileIfAbsent(fs, src, dst) ==
    [p \in (DOMAIN fs) \cup {dst} |-> IF p = dst /\ dst \notin DOMAIN fs THEN fs[src] ELSE fs[p]]

\* copyfile(src, dst)
CopyFile(fs, src, dst) ==
    [p \in (DOMAIN fs) \cup {dst} |-> IF p = dst THEN fs[src] ELSE fs[p]]

\* The copies of one call: every metric of new_best gets the file at src.
RECURSIVE CopyBest(_, _, _)
CopyBest(fs, src, metrics) ==
    IF metrics = {} THEN fs
    ELSE LET metric == CHOOSE m \in metrics : TRUE
         IN CopyBest(CopyFile(fs, src, BestModelFile(metric)), src, metrics \ {metric})

Optimizers == {"optimizer_state"}

LrSchedulers == {"None"}

checkpoint(iteration, model, optimizer, lr_scheduler, metric_dict) ==
    /\ calls < MaxCalls
    /\ calls' = calls + 1
    /\ IF RunwayNotMet(iteration)
       THEN /\ last' = [NoCall EXCEPT !.op = "checkpoint", !.iteration = iteration,
                                      !.metric_dict = metric_dict, !.model = model]
            /\ UNCHANGED <<checkpoint_condition_met, best_metric_dict, files>>
       ELSE LET state_dict == collect_state_dict(iteration, model, optimizer,
                                                 lr_scheduler, metric_dict)
                checkpoint_path == CheckpointFile(iteration)
                saved == Save(files, checkpoint_path, state_dict)
                called == Keys(checkpoint_all_metrics) \cap DOMAIN metric_dict # {}
                new_best_metrics == IF called THEN is_new_best(metric_dict) ELSE {}
            IN /\ checkpoint_condition_met' = ConditionMetAfter(iteration)
               /\ best_metric_dict' = IF called THEN UpdatedLedger(metric_dict)
                                      ELSE best_metric_dict
               /\ files' = CopyBest(saved, checkpoint_path, new_best_metrics)
               /\ last' = [NoCall EXCEPT !.op = "checkpoint", !.iteration = iteration,
                                         !.metric_dict = metric_dict, !.model = model,
                                         !.new_best = new_best_metrics]
    \* The history of the run, recorded from the arguments and the ledger alone.
    /\ passed' = [m \in MetricNames |->
                     IF m \in DOMAIN metric_dict THEN passed[m] \cup {metric_dict[m]}
                     ELSE passed[m]]
    /\ evaluated' = [m \in MetricNames |->
                        IF iteration >= checkpoint_runway /\ m \in DOMAIN metric_dict
                        THEN evaluated[m] \cup {metric_dict[m]}
                        ELSE evaluated[m]]
    /\ established' =
           LET changed == {m \in DOMAIN best_metric_dict' :
                              \/ m \notin DOMAIN best_metric_dict
                              \/ best_metric_dict'[m] # best_metric_dict[m]}
           IN [m \in (DOMAIN established) \cup changed |->
                  IF m \in changed THEN [iteration |-> iteration, model |-> model]
                  ELSE established[m]]
    /\ UNCHANGED <<config, cleared, other>>

Checkpoint ==
    \E iteration \in Iterations, model \in Models, optimizer \in Optimizers,
       lr_scheduler \in LrSchedulers, metric_dict \in MetricDicts :
        checkpoint(iteration, model, optimizer, lr_scheduler, metric_dict)

\* ------------------------------------------------------------------ clear

\* Variant: clear_intermediate_checkpoints is tested first.
ClearTargetsIntermediateFirst(dir) ==
    IF clear_intermediate_checkpoints THEN GlobCheckpointPth(dir)
    ELSE IF clear_all_checkpoints THEN GlobAllPth(dir)
    ELSE {}

\* The files clear() removes.
ClearTargets(dir) ==
    IF clear_all_checkpoints THEN GlobAllPth(dir)
    ELSE IF clear_intermediate_checkpoints THEN GlobCheckpointPth(dir)
    ELSE {}

clear ==
    /\ files' = RemoveAll(files, ClearTargets(DOMAIN files))
    /\ last' = [NoCall EXCEPT !.op = "clear"]
    /\ cleared' = TRUE
    /\ UNCHANGED <<config, checkpoint_condition_met, best_metric_dict, calls,
                   passed, evaluated, established, other>>

\* -------------------------------------------------------- load_best_model

\* Variant: the best-model file decides, not the ledger.
HasBestFile(metric) == BestModelFile(metric) \in DOMAIN files

\* Variant: a missing best-model file counts as no best model.
HasBestAndFile(metric) ==
    metric \in DOMAIN best_metric_dict /\ BestModelFile(metric) \in DOMAIN files

\* `list(self.checkpoint_metric.keys())[0] not in self.best_metric_dict`, negated.
HasBest(metric) == metric \in DOMAIN best_metric_dict

\* The outcome of load_best_model(model): the model as the call leaves it,
\* whether _move_to_device() ran, the files torch.load read, and the exception
\* raised, if any (IndexError: checkpoint_metric has no first key).
LoadOutcome(model) ==
    IF checkpoint_metric = <<>>
    THEN [returned |-> model, moved |-> FALSE, read |-> {}, error |-> "IndexError"]
    ELSE LET metric == checkpoint_metric[1][1]
             best_model_path == BestModelFile(metric)
         IN IF ~HasBest(metric)
            THEN [returned |-> model, moved |-> FALSE, read |-> {}, error |-> ""]
            ELSE IF best_model_path \notin DOMAIN files
            THEN [returned |-> model, moved |-> FALSE, read |-> {},
                  error |-> "FileNotFoundError"]
            ELSE LET loaded == files[best_model_path]
                 IN [returned |-> [name |-> loaded.model.name,
                                   module_pool |-> loaded.model.module_pool],
                     moved |-> TRUE, read |-> {best_model_path}, error |-> ""]

load_best_model(model) ==
    /\ last' = [NoCall EXCEPT !.op = "load_best_model", !.model = model,
                              !.returned = LoadOutcome(model).returned,
                              !.moved = LoadOutcome(model).moved,
                              !.read = LoadOutcome(model).read,
                              !.error = LoadOutcome(model).error]
    /\ UNCHANGED <<config, checkpoint_condition_met, best_metric_dict, files, calls, history,
                   other>>

LoadBestModel == \E model \in Models : load_best_model(model)

Next == Checkpoint \/ clear \/ LoadBestModel

Spec == Init /\ [][Next]_vars

\* ----------------------------------------------------------- construction

FreqInputs == -1..MaxFreq

\* checkpoint_metric as Meta.config may hold it, valid or not.
CtorMetricInputs ==
    { <<>>,
      << <<MetricAB, "max">> >>,
      << <<MetricAB, "avg">> >>,
      << <<MetricA_B, "min">>, <<MetricAB, "max">> >> }

\* checkpoint_task_metrics as Meta.config may hold it (<<>>: None).
CtorTaskMetricInputs ==
    { <<>>,
      << <<MetricAB, "max">>, <<MetricA_B, "min">> >>,
      << <<MetricAB, "avg">> >>,
      << <<MetricA_B, "avg">> >> }

\* The configurations and directories a Checkpointer may be constructed on.
CtorInputs ==
    {[NoCtor EXCEPT !.state = "new", !.existed = x, !.path_exists = x,
                    !.evaluation_freq = ef, !.freq_option = fo,
                    !.checkpoint_metric = cm, !.checkpoint_task_metrics = tm] :
        x \in BOOLEAN, ef \in FreqInputs, fo \in FreqInputs,
        cm \in CtorMetricInputs, tm \in CtorTaskMetricInputs}

\* `if not os.path.exists(self.checkpoint_path): os.makedirs(self.checkpoint_path)`
MakeDirs(c) == [c EXCEPT !.path_exists = TRUE]

\* `if mode not in ["min", "max"]` for some tracked metric.
BadMode(all_metrics) == \E i \in DOMAIN all_metrics : all_metrics[i][2] \notin {"min", "max"}

\* __init__, statement by statement: the directory, then the frequency and
\* its check, then the merged metrics and the check of their modes.
CtorOutcome(c) ==
    LET c1 == MakeDirs(c)
        c2 == [c1 EXCEPT !.checkpoint_freq = c.evaluation_freq * c.freq_option]
        c3 == [c2 EXCEPT !.checkpoint_all_metrics =
                             MergedMetrics(c.checkpoint_metric, c.checkpoint_task_metrics)]
    IN IF c2.checkpoint_freq <= 0
       THEN [c2 EXCEPT !.state = "failed", !.error = "ValueError"]
       ELSE IF BadMode(c3.checkpoint_all_metrics)
       THEN [c3 EXCEPT !.state = "failed", !.error = "ValueError"]
       ELSE [c3 EXCEPT !.state = "constructed"]

Construct ==
    /\ ctor.state = "new"
    /\ ctor' = CtorOutcome(ctor)
    /\ UNCHANGED <<config, checkpoint_condition_met, best_metric_dict, files, calls, last,
                   history, sched, step>>

\* A Checkpointer not yet constructed: its fields hold nothing.
Unbuilt ==
    /\ checkpoint_metric = <<>>
    /\ checkpoint_task_metrics = <<>>
    /\ checkpoint_freq = 1
    /\ checkpoint_all_metrics = <<>>
    /\ checkpoint_runway = 0
    /\ clear_intermediate_checkpoints = FALSE
    /\ clear_all_checkpoints = FALSE
    /\ checkpoint_condition_met = FALSE
    /\ best_metric_dict = EmptyDict
    /\ files = [p \in {} |-> 0]
    /\ calls = 0
    /\ last = NoCall
    /\ passed = [m \in MetricNames |-> {}]
    /\ evaluated = [m \in MetricNames |-> {}]
    /\ established = EmptyDict
    /\ cleared = FALSE

InitCtor == Unbuilt /\ ctor \in CtorInputs /\ sched = NoSched /\ step = NoStep

NextCtor == Construct

SpecCtor == InitCtor /\ [][NextCtor]_vars

\* ---------------------------------------------------- SequentialScheduler

UidNames == {"guid", "idx"}

\* The j-th item the iterator of the dataloader at position p yields: an
\* (X_dict, Y_dict) pair; X_dict holds both candidate unique-id fields.
Item(p, j) ==
    [X_dict |-> [guid |-> 10 * p + j, idx |-> 100 + 10 * p + j],
     Y_dict |-> [labels |-> j]]

\* The dataloader at position p: its metadata, the batch count len() declares
\* and the number of items its iterator yields before it is exhausted.
Dataloaders(p) ==
    {[task_to_label_dict |-> [task |-> p], uid |-> u,
      data_name |-> <<"data", Digit(p)>>,
      split |-> IF p % 2 = 1 THEN "train" ELSE "valid",
      len |-> n, yields |-> y] :
        u \in UidNames, n \in 0..MaxBatches, y \in 0..MaxBatches}

\* The lists of dataloaders get_batches is called with.
DataloaderLists ==
    UNION {{ds \in [1..n -> UNION {Dataloaders(p) : p \in 1..n}] :
               \A p \in 1..n : ds[p] \in Dataloaders(p)} : n \in 0..MaxLoaders}

\* Variant: the inner loop stops one batch early.
BatchesLeftOffByOne(batch_count, k) == k < batch_count - 1

\* `for batch in range(batch_count)` after k iterations.
BatchesLeft(batch_count, k) == k < batch_count

\* The tuple of one yield.
Yielded(dataloader, item) ==
    <<item.X_dict[dataloader.uid], item.X_dict, item.Y_dict,
      dataloader.task_to_label_dict, dataloader.data_name, dataloader.split>>

\* The generator resumed in state s, up to its next yield or its end: the set
\* of outcomes.  next(data_loader) on an exhausted iterator raises
\* StopIteration inside the generator: a RuntimeError for the caller (PEP 479,
\* Python 3.7 on), the plain end of the generator before that.
RECURSIVE Resume(_)
Resume(s) ==
    IF s.i > Len(s.dataloaders)
    THEN {[s EXCEPT !.state = "done"]}
    ELSE LET dataloader == s.dataloaders[s.i]
         IN IF ~BatchesLeft(dataloader.len, s.k)
            THEN Resume([s EXCEPT !.i = s.i + 1, !.k = 0])
            ELSE IF s.k >= dataloader.yields
            THEN {[s EXCEPT !.state = "error", !.error = "RuntimeError"],
                  [s EXCEPT !.state = "done"]}
            ELSE {[s EXCEPT !.state = "running", !.k = s.k + 1,
                            !.emitted = Append(s.emitted,
                                               Yielded(dataloader, Item(s.i, s.k + 1)))]}

\* next() on the generator get_batches returned.
NextBatch ==
    /\ sched.state \in {"ready", "running"}
    /\ sched' \in Resume(sched)
    /\ UNCHANGED <<config, checkpoint_condition_met, best_metric_dict, files, calls, last,
                   history, ctor, step>>

\* get_batches(dataloaders) has returned its generator; nothing has run yet.
InitSched ==
    /\ Unbuilt
    /\ ctor = NoCtor
    /\ step = NoStep
    /\ \E ds \in DataloaderLists : sched = [NoSched EXCEPT !.state = "ready", !.dataloaders = ds]

NextSched == NextBatch

SpecSched == InitSched /\ [][NextSched]_vars

\* ------------------------------------------- checkpoint, statement by statement
\* The same handler as `checkpoint`, with torch.save and copyfile as the two
\* writes they are (the destination opened for writing, then its content
\* written), each of which the file system may fail.

StepFrame == UNCHANGED <<config, last, history, ctor, sched>>

\* Lines 112-120: the runway test, the flag, collect_state_dict.
StepCall(iteration, model, optimizer, lr_scheduler, metric_dict) ==
    /\ step.pc = "idle"
    /\ calls < MaxCalls
    /\ calls' = calls + 1
    /\ LET s == [NoStep EXCEPT !.iteration = iteration, !.model = model,
                               !.metric_dict = metric_dict, !.partial = step.partial,
                               !.ledger0 = best_metric_dict, !.files0 = files,
                               !.partial0 = step.partial]
       IN IF RunwayNotMet(iteration)
          THEN /\ step' = s
               /\ UNCHANGED checkpoint_condition_met
          ELSE /\ step' = [s EXCEPT !.pc = "save",
                                    !.state_dict = collect_state_dict(iteration, model, optimizer,
                                                                      lr_scheduler, metric_dict)]
               /\ checkpoint_condition_met' = ConditionMetAfter(iteration)
    /\ UNCHANGED <<best_metric_dict, files>>
    /\ StepFrame

\* Variant: a failure of torch.save is swallowed and the call goes on.
SaveFailedSwallowed(s) == [s EXCEPT !.pc = "evaluate", !.save_failed = TRUE]

\* torch.save raised: nothing in checkpoint() catches it, the call ends.
SaveFailed(s) == [s EXCEPT !.pc = "idle", !.error = "IOError", !.save_failed = TRUE]

\* copyfile raised: the call ends.
CopyFailed(s) == [s EXCEPT !.pc = "idle", !.error = "IOError"]

\* Line 124, torch.save opens checkpoint_path for writing: the file exists,
\* its content not yet written; or the open fails.
StepSaveOpen ==
    /\ step.pc = "save"
    /\ LET checkpoint_path == CheckpointFile(step.iteration)
       IN \/ /\ files' = Save(files, checkpoint_path, step.state_dict)
             /\ step' = [step EXCEPT !.pc = "saving",
                                     !.partial = step.partial \cup {checkpoint_path}]
          \/ /\ step' = SaveFailed(step)
             /\ UNCHANGED files
    /\ UNCHANGED <<checkpoint_condition_met, best_metric_dict, calls>>
    /\ StepFrame

\* Line 124, torch.save writes the state_dict and closes the file; or the
\* write fails and leaves the file incomplete.
StepSaveWrite ==
    /\ step.pc = "saving"
    /\ \/ step' = [step EXCEPT !.pc = "evaluate",
                               !.partial = step.partial \ {CheckpointFile(step.iteration)}]
       \/ step' = SaveFailed(step)
    /\ UNCHANGED <<checkpoint_condition_met, best_metric_dict, files, calls>>
    /\ StepFrame

\* Lines 130-132: is_new_best, when metric_dict holds a tracked metric.
StepIsNewBest ==
    /\ step.pc = "evaluate"
    /\ LET called == Keys(checkpoint_all_metrics) \cap DOMAIN step.metric_dict # {}
           new_best_metrics == IF called THEN is_new_best(step.metric_dict) ELSE {}
       IN /\ best_metric_dict' = IF called THEN UpdatedLedger(step.metric_dict)
                                 ELSE best_metric_dict
          /\ step' = [step EXCEPT !.pc = IF new_best_metrics = {} THEN "idle" ELSE "copy",
                                  !.pending = new_best_metrics]
    /\ UNCHANGED <<checkpoint_condition_met, files, calls>>
    /\ StepFrame

\* Lines 134-139, copyfile for the next metric of new_best_metrics (a set: any
\* of those left) opens the best-model file for writing; or the open fails.
StepCopyOpen ==
    /\ step.pc = "copy"
    /\ \E metric \in step.pending :
           LET s == [step EXCEPT !.copying = metric]
           IN \/ /\ files' = CopyFile(files, CheckpointFile(step.iteration),
                                      BestModelFile(metric))
                 /\ step' = [s EXCEPT !.pc = "copying",
                                      !.partial = step.partial \cup {BestModelFile(metric)}]
              \/ /\ step' = CopyFailed(s)
                 /\ UNCHANGED files
    /\ UNCHANGED <<checkpoint_condition_met, best_metric_dict, calls>>
    /\ StepFrame

\* copyfile writes the content and closes the file; or the write fails and
\* leaves the best-model file incomplete.
StepCopyWrite ==
    /\ step.pc = "copying"
    /\ \/ LET pending == step.pending \ {step.copying}
          IN step' = [step EXCEPT !.pc = IF pending = {} THEN "idle" ELSE "copy",
                                  !.pending = pending,
                                  !.partial = step.partial \ {BestModelFile(step.copying)}]
       \/ step' = CopyFailed(step)
    /\ UNCHANGED <<checkpoint_condition_met, best_metric_dict, files, calls>>
    /\ StepFrame

StepCheckpoint ==
    \E iteration \in Iterations, model \in Models, optimizer \in Optimizers,
       lr_scheduler \in LrSchedulers, metric_dict \in MetricDicts :
        StepCall(iteration, model, optimizer, lr_scheduler, metric_dict)

\* A constructed Checkpointer that keeps every file (clear() is not part of
\* checkpoint()).
InitSteps ==
    /\ Init
    /\ checkpoint_freq = 1
    /\ ~clear_intermediate_checkpoints
    /\ ~clear_all_checkpoints

NextSteps ==
    \/ StepCheckpoint
    \/ StepSaveOpen
    \/ StepSaveWrite
    \/ StepIsNewBest
    \/ StepCopyOpen
    \/ StepCopyWrite

SpecSteps == InitSteps /\ [][NextSteps]_vars

\* ================================================================ claims

\* The tracked-metrics set and a tracked metric's mode, as configured.
Tracked == Keys(checkpoint_all_metrics)

ModeOf(m) == Lookup(checkpoint_all_metrics, m)

SetMax(S) == CHOOSE x \in S : \A y \in S : y <= x

SetMin(S) == CHOOSE x \in S : \A y \in S : x <= y

Extremal(mode, S) == IF mode = "max" THEN SetMax(S) ELSE SetMin(S)

\* The first key of checkpoint_metric, when it has one.
FirstKey == checkpoint_metric[1][1]

\* ---- C1
\* C1 as stated: for every tracked metric m that appeared in some metric_dict
\* passed to checkpoint(), best_metric_dict[m] is the extremal value, under
\* m's mode, of ALL the metric_dict[m] values passed to checkpoint() since
\* construction.  Calls below the runway return before the ledger is touched,
\* so their values are not in the ledger.
C1_LedgerExtremalOfAllPassed ==
    \A m \in Tracked :
        passed[m] # {} =>
            /\ m \in DOMAIN best_metric_dict
            /\ best_metric_dict[m] = Extremal(ModeOf(m), passed[m])

\* C1 amended: for every tracked metric m that appeared in the metric_dict of
\* some checkpoint() call with iteration >= checkpoint_runway,
\* best_metric_dict[m] is the extremal value, under m's mode, of the
\* metric_dict[m] values passed in those calls; a tracked metric that appeared
\* in no such call has no ledger entry.
C1_LedgerExtremalPastRunway ==
    \A m \in Tracked :
        IF evaluated[m] # {}
        THEN /\ m \in DOMAIN best_metric_dict
             /\ best_metric_dict[m] = Extremal(ModeOf(m), evaluated[m])
        ELSE m \notin DOMAIN best_metric_dict

\* A min-mode metric was passed 0 and then 1, both past the runway: the second
\* call reported nothing and the ledger holds the smaller value.
C1_Witness ==
    \E m \in Tracked :
        /\ ModeOf(m) = "min"
        /\ evaluated[m] = {0, 1}
        /\ m \in DOMAIN best_metric_dict
        /\ best_metric_dict[m] = 0
        /\ last.op = "checkpoint"
        /\ last.new_best = {}

\* ---- C2
\* C2: in every reachable state, for every metric m with a ledger entry, the
\* file best_model_<m with '/' replaced by '_'> exists and holds a snapshot
\* whose metric_dict[m] equals best_metric_dict[m].
C2_NoStaleBestCopy ==
    \A m \in DOMAIN best_metric_dict :
        /\ BestModelFile(m) \in DOMAIN files
        /\ m \in DOMAIN files[BestModelFile(m)].metric_dict
        /\ files[BestModelFile(m)].metric_dict[m] = best_metric_dict[m]

\* ---- C3
\* What the history of values passed so far says about value v of metric m:
\* first value, or strictly better than every earlier one under m's mode.
C3_Reported(m, v) ==
    \/ evaluated[m] = {}
    \/ ModeOf(m) = "max" /\ v > SetMax(evaluated[m])
    \/ ModeOf(m) = "min" /\ v < SetMin(evaluated[m])

\* C3: a call that reaches is_new_best reports a tracked metric m of its
\* metric_dict if and only if no earlier call contained m, or the value is
\* strictly greater than the maximum of the earlier values (mode 'max'), or
\* strictly less than their minimum (mode 'min'); a tie is not reported; the
\* ledger entry becomes the value exactly when m is reported and is otherwise
\* left as it was.
C3_NewBestIffStrictlyBetter ==
    [][(last'.op = "checkpoint" /\ last'.iteration >= checkpoint_runway) =>
          \A m \in Tracked \cap DOMAIN last'.metric_dict :
              LET v == last'.metric_dict[m]
              IN /\ m \in last'.new_best <=> C3_Reported(m, v)
                 /\ m \in last'.new_best => best_metric_dict'[m] = v
                 /\ m \notin last'.new_best =>
                        /\ m \in DOMAIN best_metric_dict
                        /\ best_metric_dict'[m] = best_metric_dict[m]]_vars

\* The last call passed a tracked metric a value equal to its current best (a
\* tie) and did not report it.
C3_Witness ==
    /\ last.op = "checkpoint"
    /\ last.iteration >= checkpoint_runway
    /\ \E m \in Tracked \cap DOMAIN last.metric_dict :
           /\ m \notin last.new_best
           /\ m \in DOMAIN best_metric_dict
           /\ last.metric_dict[m] = best_metric_dict[m]

\* ---- C4
\* C4: a checkpoint() call with iteration < checkpoint_runway changes no file
\* of checkpoint_path, leaves best_metric_dict unchanged and leaves
\* checkpoint_condition_met unchanged.
C4_BelowRunwayNoOp ==
    [][(last'.op = "checkpoint" /\ last'.iteration < checkpoint_runway) =>
          /\ files' = files
          /\ best_metric_dict' = best_metric_dict
          /\ checkpoint_condition_met' = checkpoint_condition_met]_vars

\* A call below the runway, carrying a tracked metric, made after an earlier
\* call had already written files and set the flag.
C4_Witness ==
    /\ last.op = "checkpoint"
    /\ last.iteration < checkpoint_runway
    /\ Tracked \cap DOMAIN last.metric_dict # {}
    /\ DOMAIN files # {}
    /\ checkpoint_condition_met

\* ---- C5
\* C5: the set is_new_best returns is a subset of the keys of the current
\* metric_dict that are tracked; no untracked metric has a ledger entry; and
\* every best_model_* file is the copy made for a tracked metric that the
\* snapshot's own metric_dict contains.
C5_UntrackedNeverBest ==
    /\ last.new_best \subseteq (Tracked \cap DOMAIN last.metric_dict)
    /\ DOMAIN best_metric_dict \subseteq Tracked
    /\ \A p \in DOMAIN files :
           p[1] = "best_model_" =>
               \E m \in Tracked \cap DOMAIN files[p].metric_dict : p = BestModelFile(m)

\* The last call reached is_new_best with a metric_dict holding a tracked and an
\* untracked metric; only the tracked one was reported.
C5_Witness ==
    /\ last.op = "checkpoint"
    /\ last.new_best # {}
    /\ (DOMAIN last.metric_dict) \ Tracked # {}
    /\ \E p \in DOMAIN files : p[1] = "best_model_"

\* ---- C6
\* C6: immediately after a checkpoint(iteration, ...) call that established a
\* new best for m, the file best_model_<m with '/' replaced by '_'> exists and
\* its content is the content of checkpoint_<iteration>, which is the snapshot
\* of that call.
C6_BestCopyIsThisCheckpoint ==
    last.op = "checkpoint" =>
        \A m \in last.new_best :
            /\ CheckpointFile(last.iteration) \in DOMAIN files
            /\ BestModelFile(m) \in DOMAIN files
            /\ files[BestModelFile(m)] = files[CheckpointFile(last.iteration)]
            /\ files[BestModelFile(m)].iteration = last.iteration
            /\ files[BestModelFile(m)].metric_dict = last.metric_dict
            /\ files[BestModelFile(m)].model = last.model

\* The last call established a new best for a metric that already had a best
\* copy from an earlier call.
C6_Witness ==
    /\ last.op = "checkpoint"
    /\ \E m \in last.new_best : Cardinality(evaluated[m]) = 2

\* ---- C7
\* C7: clear() with clear_all_checkpoints set leaves no file in
\* checkpoint_path; otherwise, with clear_intermediate_checkpoints set, it
\* removes exactly the checkpoint_<iteration> files and every best_model_*
\* file survives with its content; with neither flag set it changes no file.
C7_ClearByFlag ==
    [][last'.op = "clear" =>
          IF clear_all_checkpoints
          THEN DOMAIN files' = {}
          ELSE IF clear_intermediate_checkpoints
          THEN /\ DOMAIN files' = {p \in DOMAIN files : p[1] # "checkpoint_"}
               /\ \A p \in DOMAIN files' : files'[p] = files[p]
               /\ \A p \in DOMAIN files : p[1] = "best_model_" => p \in DOMAIN files'
          ELSE files' = files]_vars

\* clear() ran with only clear_intermediate_checkpoints set after checkpoints
\* had been written: the best-model copies are all that is left.
C7_Witness ==
    /\ last.op = "clear"
    /\ ~clear_all_checkpoints
    /\ clear_intermediate_checkpoints
    /\ checkpoint_condition_met
    /\ DOMAIN files # {}
    /\ \A p \in DOMAIN files : p[1] = "best_model_"

\* ---- C8
\* C8: with no clear() so far, when the first key of checkpoint_metric has a
\* ledger entry, load_best_model(model) leaves the model with the name and
\* parameters it had at the checkpoint() call that established the ledger's
\* current best for that metric, and runs the device-placement hook.
C8_RestoresEstablishingModel ==
    (/\ last.op = "load_best_model"
     /\ ~cleared
     /\ checkpoint_metric # <<>>
     /\ FirstKey \in DOMAIN best_metric_dict) =>
        /\ last.error = ""
        /\ last.moved
        /\ last.returned = established[FirstKey].model

\* ---- C9
\* C9: when the first key of checkpoint_metric has no ledger entry,
\* load_best_model(model) leaves the model's name and parameters as they were,
\* reads no file, raises nothing and does not run the device-placement hook.
C9_NoEntryLeavesModel ==
    (/\ last.op = "load_best_model"
     /\ checkpoint_metric # <<>>
     /\ FirstKey \notin DOMAIN best_metric_dict) =>
        /\ last.returned = last.model
        /\ last.read = {}
        /\ ~last.moved
        /\ last.error = ""

\* load_best_model ran while the first key had no ledger entry although the
\* file its best copy would be named exists (written for another metric).
C9_Witness ==
    /\ last.op = "load_best_model"
    /\ checkpoint_metric # <<>>
    /\ FirstKey \notin DOMAIN best_metric_dict
    /\ BestModelFile(FirstKey) \in DOMAIN files

\* ---- C10
\* C10: when the ledger has an entry for the first key of checkpoint_metric but
\* its best_model file is missing, load_best_model raises the I/O error, leaves
\* the model's name and parameters as they were, and does not run the
\* device-placement hook.
C10_MissingFileRaises ==
    (/\ last.op = "load_best_model"
     /\ checkpoint_metric # <<>>
     /\ FirstKey \in DOMAIN best_metric_dict
     /\ BestModelFile(FirstKey) \notin DOMAIN files) =>
        /\ last.error = "FileNotFoundError"
        /\ last.returned = last.model
        /\ ~last.moved

\* checkpoint() recorded a best for the first key, clear() removed every file,
\* and load_best_model was then called.
C10_Witness ==
    /\ last.op = "load_best_model"
    /\ checkpoint_metric # <<>>
    /\ FirstKey \in DOMAIN best_metric_dict
    /\ BestModelFile(FirstKey) \notin DOMAIN files
    /\ clear_all_checkpoints
    /\ cleared

\* ---- C11
\* C11: a construction that fails with the configuration error (checkpoint_freq
\* <= 0, or a tracked metric whose mode is neither 'min' nor 'max') has created
\* no directory: a checkpoint_path that did not exist before does not exist
\* afterwards; and a construction with such a configuration does fail.
C11_FailsBeforeMakedirs ==
    /\ (ctor.state \in {"constructed", "failed"} /\
        (ctor.evaluation_freq * ctor.freq_option <= 0
         \/ BadMode(MergedMetrics(ctor.checkpoint_metric, ctor.checkpoint_task_metrics))))
           => (ctor.state = "failed" /\ ctor.error = "ValueError")
    /\ (ctor.state = "failed" /\ ~ctor.existed) => ~ctor.path_exists

\* ---- C12
\* C12: checkpoint_condition_met is false at construction, becomes true in the
\* first checkpoint() call with iteration >= checkpoint_runway, and no call
\* (checkpoint() at any iteration, clear(), load_best_model()) changes it
\* afterwards.
C12_FlagSetOnce ==
    /\ ~checkpoint_condition_met
    /\ [][checkpoint_condition_met' =
             (checkpoint_condition_met
              \/ (last'.op = "checkpoint" /\ last'.iteration >= checkpoint_runway))]_vars

\* The flag is set and the last call was a checkpoint() below the runway.
C12_Witness ==
    /\ checkpoint_condition_met
    /\ last.op = "checkpoint"
    /\ last.iteration < checkpoint_runway

\* ---- C13
\* The batches of the dataloader at position p, in order, each with that
\* dataloader's metadata, when it yields n batches.
C13_BatchesOf(ds, p, n) ==
    [j \in 1..n |-> <<Item(p, j).X_dict[ds[p].uid], Item(p, j).X_dict, Item(p, j).Y_dict,
                      ds[p].task_to_label_dict, ds[p].data_name, ds[p].split>>]

RECURSIVE C13_Expected(_, _)
C13_Expected(ds, p) ==
    IF p > Len(ds) THEN <<>>
    ELSE C13_BatchesOf(ds, p, ds[p].len) \o C13_Expected(ds, p + 1)

\* C13: when every dataloader yields exactly its declared batch count, what
\* get_batches has emitted so far is a prefix of: all batches of source 1 in
\* order, then all of source 2, ..., each tuple with its own source's
\* task_to_label_dict, data_name, split and unique-id field; the generator
\* raises nothing, and when it ends it has emitted that whole sequence
\* (sum-of-batch-counts tuples).
C13_SequentialOrder ==
    (/\ sched.state # "none"
     /\ \A p \in DOMAIN sched.dataloaders :
            sched.dataloaders[p].yields = sched.dataloaders[p].len) =>
        LET expected == C13_Expected(sched.dataloaders, 1)
        IN /\ Len(sched.emitted) <= Len(expected)
           /\ sched.emitted = SubSeq(expected, 1, Len(sched.emitted))
           /\ sched.state # "error"
           /\ sched.state = "done" => sched.emitted = expected

\* Two well-behaved dataloaders with batch counts 2 and 1 and different
\* unique-id fields: the epoch ended after 3 batches.
C13_Witness ==
    /\ sched.state = "done"
    /\ Len(sched.dataloaders) = 2
    /\ sched.dataloaders[1].len = 2 /\ sched.dataloaders[1].yields = 2
    /\ sched.dataloaders[2].len = 1 /\ sched.dataloaders[2].yields = 1
    /\ sched.dataloaders[1].uid # sched.dataloaders[2].uid
    /\ Len(sched.emitted) = 3

\* ---- C14
\* The number of emitted batches that carry the data_name of source p.
C14_EmittedFrom(p) ==
    Cardinality({n \in DOMAIN sched.emitted :
                     sched.emitted[n][5] = sched.dataloaders[p].data_name})

\* C14: get_batches never ends the epoch normally having emitted, for some
\* source, a number of batches different from what that source's iterator
\* yields.
C14_MismatchFailsFast ==
    sched.state = "done" =>
        \A p \in DOMAIN sched.dataloaders : C14_EmittedFrom(p) = sched.dataloaders[p].yields

\* ---- C15
\* C15: the tracked metrics are exactly the names of checkpoint_task_metrics
\* and of checkpoint_metric together; a name of checkpoint_metric is tracked
\* with checkpoint_metric's mode, any other with checkpoint_task_metrics'
\* mode; and every call that reaches is_new_best compares a metric of
\* checkpoint_metric that has a ledger entry under checkpoint_metric's mode,
\* whatever mode checkpoint_task_metrics gives it.
C15_MergedMetricsPrecedence ==
    /\ [](/\ Keys(checkpoint_all_metrics) =
                Keys(checkpoint_task_metrics) \cup Keys(checkpoint_metric)
          /\ \A m \in Keys(checkpoint_metric) :
                 Lookup(checkpoint_all_metrics, m) = Lookup(checkpoint_metric, m)
          /\ \A m \in Keys(checkpoint_task_metrics) \ Keys(checkpoint_metric) :
                 Lookup(checkpoint_all_metrics, m) = Lookup(checkpoint_task_metrics, m))
    /\ [][(last'.op = "checkpoint" /\ last'.iteration >= checkpoint_runway) =>
             \A m \in Keys(checkpoint_metric) \cap DOMAIN last'.metric_dict \cap
                      DOMAIN best_metric_dict :
                 LET v == last'.metric_dict[m]
                     mode == Lookup(checkpoint_metric, m)
                 IN m \in last'.new_best <=>
                        \/ mode = "max" /\ v > best_metric_dict[m]
                        \/ mode = "min" /\ v < best_metric_dict[m]]_vars

\* A metric configured in both with different modes was passed a value that
\* is better under checkpoint_metric's mode and worse under the other, and
\* was reported.
C15_Witness ==
    /\ last.op = "checkpoint"
    /\ last.iteration >= checkpoint_runway
    /\ \E m \in Keys(checkpoint_metric) \cap Keys(checkpoint_task_metrics) :
           /\ Lookup(checkpoint_metric, m) # Lookup(checkpoint_task_metrics, m)
           /\ Lookup(checkpoint_metric, m) = "min"
           /\ m \in last.new_best
           /\ evaluated[m] = {0, 1}
           /\ last.metric_dict[m] = 0

\* ---- C17
\* C17: the ledger is empty after construction; no step removes an entry; no
\* step makes the value of an entry worse under its metric's mode (lower for
\* 'max', higher for 'min'); clear() and load_best_model() leave the ledger
\* as it was.
C17_LedgerMonotone ==
    /\ best_metric_dict = EmptyDict
    /\ [][/\ DOMAIN best_metric_dict \subseteq DOMAIN best_metric_dict'
          /\ \A m \in DOMAIN best_metric_dict :
                 /\ ModeOf(m) = "max" => best_metric_dict'[m] >= best_metric_dict[m]
                 /\ ModeOf(m) = "min" => best_metric_dict'[m] <= best_metric_dict[m]
          /\ last'.op \in {"clear", "load_best_model"} =>
                 best_metric_dict' = best_metric_dict]_vars

\* clear() ran on a ledger that holds two entries, one of them improved from
\* its first value by a second call that did not contain the other.
C17_Witness ==
    /\ last.op = "clear"
    /\ DOMAIN best_metric_dict = {MetricAB, MetricA_B}
    /\ \E m \in DOMAIN best_metric_dict :
           /\ evaluated[m] = {0, 1}
           /\ ModeOf(m) = "max"
           /\ best_metric_dict[m] = 1
    /\ \E m \in DOMAIN best_metric_dict : Cardinality(evaluated[m]) = 1

\* ---- C19
\* C19: every checkpoint() call with iteration >= checkpoint_runway leaves
\* checkpoint_<iteration> on disk holding the snapshot of that call (a file
\* of that name from an earlier call is overwritten), whatever checkpoint_freq
\* is and whatever metric_dict holds; when metric_dict holds no tracked
\* metric, checkpoint_<iteration> is the only file the call touches.
C19_AlwaysPersistsPastRunway ==
    [][(last'.op = "checkpoint" /\ last'.iteration >= checkpoint_runway) =>
          LET f == CheckpointFile(last'.iteration)
          IN /\ f \in DOMAIN files'
             /\ files'[f].iteration = last'.iteration
             /\ files'[f].model = last'.model
             /\ files'[f].metric_dict = last'.metric_dict
             /\ Tracked \cap DOMAIN last'.metric_dict = {} =>
                    /\ DOMAIN files' = DOMAIN files \cup {f}
                    /\ \A p \in DOMAIN files \ {f} : files'[p] = files[p]]_vars

\* A call at iteration 1 with checkpoint_freq 2 and an empty metric_dict
\* overwrote checkpoint_1, which an earlier call at iteration 1 (one that set
\* a best value) had written.
C19_Witness ==
    /\ last.op = "checkpoint"
    /\ last.iteration = 1
    /\ last.iteration >= checkpoint_runway
    /\ checkpoint_freq = 2
    /\ last.metric_dict = EmptyDict
    /\ Tracked # {}
    /\ \E m \in DOMAIN established : established[m].iteration = 1
    /\ CheckpointFile(1) \in DOMAIN files
    /\ files[CheckpointFile(1)].metric_dict = EmptyDict

\* ---- C16
\* The best-model files on disk.
C16_BestFiles == {p \in DOMAIN files : p[1] = "best_model_"}

C18_SaveFailureAndCopyOrder ==
    /\ [](step.save_failed =>
             /\ step.pc = "idle"
             /\ step.error = "IOError"
             /\ best_metric_dict = step.ledger0
             /\ {p \in DOMAIN files : p[1] = "best_model_"} =
                    {p \in DOMAIN step.files0 : p[1] = "best_model_"}
             /\ \A p \in DOMAIN step.files0 :
                    p[1] = "best_model_" =>
                        /\ files[p] = step.files0[p]
                        /\ p \in step.partial <=> p \in step.partial0)
    /\ [][(step.pc = "copy" /\ step'.pc # "copy") =>
             /\ step'.copying \in DOMAIN best_metric_dict
             /\ best_metric_dict[step'.copying] = step.metric_dict[step'.copying]]_vars

\* torch.save failed in a call whose metric_dict held a value that would have
\* been a new best for a metric with a ledger entry and a best-model file from
\* an earlier, completed copy.
C18_Witness ==
    /\ step.save_failed
    /\ \E m \in Tracked \cap DOMAIN step.metric_dict \cap DOMAIN best_metric_dict :
           /\ ModeOf(m) = "max"
           /\ step.metric_dict[m] > best_metric_dict[m]
           /\ BestModelFile(m) \in DOMAIN files
           /\ BestModelFile(m) \notin step.partial

====
